---- MODULE Spec2Model ----
(***************************************************************************)
(* Crawler-2.2: the crawl orchestration of main.py (main_runner,           *)
(* crawl_venues, send_completion_webhook, the __main__ block) and the      *)
(* persistence layer of utils/data_utils.py (init_db_pool,                 *)
(* create_venues_table, save_venues_to_db, close_db_pool).                 *)
(*                                                                         *)
(* Every coroutine is cut at its await points: one action per stretch of   *)
(* code that runs between two suspensions.  pc[t] is the position of task  *)
(* t, ret[t] the position its current callee returns to, exc[t] the        *)
(* exception the callee left pending ("none" on a normal return).          *)
(***************************************************************************)
EXTENDS Integers, Sequences, FiniteSets, TLC

\* ------------------------------------------------------------------ bounds
MaxPagesBound == 3
MaxPageLen == 1
MaxListLen == 2
MaxCalls == 3
MaxSaveCalls == 2

\* --------------------------------------------------------------- constants
Tasks == {1, 2}
MainTask == 1
None == 0
NULL == "NULL"
BadRating == "n/a"
Records == {[name |-> "A", location |-> "X", rating |-> "4.5"],
            [name |-> "A", location |-> "X", rating |-> NULL],
            [name |-> "A", location |-> "Y", rating |-> "4.5"],
            [name |-> NULL, location |-> "X", rating |-> "4.5"],
            [name |-> "A", location |-> "Y", rating |-> BadRating]}
PageRecords == {[name |-> "A", location |-> "X", rating |-> "4.5"],
                [name |-> "A", location |-> "Y", rating |-> BadRating]}

\* config.py:5-13
REQUIRED_KEYS == {"name", "price", "location", "capacity", "rating", "reviews",
                  "description"}
\* what a candidate dict holds for a key: no such key, None, or a value
ABSENT == "ABSENT"
FieldStates == {ABSENT, NULL, "value"}

SeqsUpTo(S, n) == UNION {[1..k -> S] : k \in 0..n}

VARIABLES
  DB_POOL, poolSeq, openPools, schemaRuns, closeCalls, closeErrors,
  store,
  pc, ret, exc, retval, arg, closing, execOk,
  page_number, max_pages, all_venues_collected, venues_processed,
  crawl_status, webhookCalls, fetched, log,
  call, nCalls,
  delivery, swallowed, candidate, required_keys, verdict

poolVars == <<DB_POOL, poolSeq, openPools, schemaRuns, closeCalls, closeErrors>>
taskVars == <<pc, ret, exc, retval, arg, closing, execOk>>
runVars == <<page_number, max_pages, all_venues_collected, venues_processed,
             crawl_status, webhookCalls, fetched, log>>
apiVars == <<call, nCalls>>
valVars == <<candidate, required_keys, verdict>>
obsVars == <<delivery, swallowed, valVars>>
vars == <<poolVars, store, taskVars, runVars, apiVars, obsVars>>

\* ------------------------------------------------------ control transfer
\* the callee of task t returns (e = "none") or raises e to its caller
Return(t, e) ==
  /\ pc' = [pc EXCEPT ![t] = ret[t]]
  /\ exc' = [exc EXCEPT ![t] = e]

Goto(t, l) == pc' = [pc EXCEPT ![t] = l]

\* ============================================================ init_db_pool
\* the early return of init_db_pool left out
PoolAlreadyInitialized_NoGuard(p) == FALSE

\* data_utils.py:57  "if DB_POOL is not None: return"
PoolAlreadyInitialized(p) == p # None

\* the except clause re-raising without the reset
PoolAfterInitFailure_NoReset(p) == p

\* data_utils.py:90-93  "except Exception: DB_POOL = None; raise"
PoolAfterInitFailure(p) == None

\* data_utils.py:56-82, the code up to the first await.  cfg is the
\* environment: a DATABASE_URL, complete PG* variables, or neither.
InitEnter(t) ==
  /\ pc[t] = "init_enter"
  /\ IF PoolAlreadyInitialized(DB_POOL)
       THEN /\ Return(t, "none")
            /\ UNCHANGED poolVars
       ELSE \E cfg \in {"url", "discrete", "missing"} :
              IF cfg = "missing"
                THEN /\ DB_POOL' = PoolAfterInitFailure(DB_POOL)
                     /\ Return(t, "ValueError")
                     /\ UNCHANGED <<poolSeq, openPools, schemaRuns, closeCalls,
                                    closeErrors>>
                ELSE /\ Goto(t, "init_create")
                     /\ UNCHANGED <<exc, poolVars>>
  /\ UNCHANGED <<store, ret, retval, arg, closing, execOk, runVars, apiVars,
                 obsVars>>

\* data_utils.py:84-88 and 100-104: create_pool resumes; on success the new
\* pool is installed and create_venues_table runs up to its acquire (its
\* "if not DB_POOL" test at line 100 is false right after the assignment);
\* on failure lines 90-93 reset DB_POOL and re-raise.
InitCreatePool(t) ==
  /\ pc[t] = "init_create"
  /\ \/ /\ poolSeq' = poolSeq + 1
        /\ openPools' = openPools \cup {poolSeq + 1}
        /\ DB_POOL' = poolSeq + 1
        /\ Goto(t, "init_schema")
        /\ UNCHANGED exc
     \/ \E e \in {"ConnectionError", "Exception"} :
          /\ DB_POOL' = PoolAfterInitFailure(DB_POOL)
          /\ Return(t, e)
          /\ UNCHANGED <<poolSeq, openPools>>
  /\ UNCHANGED <<schemaRuns, closeCalls, closeErrors, store, ret, retval, arg,
                 closing, execOk, runVars, apiVars, obsVars>>

\* data_utils.py:104-124 and 90-93: acquire + CREATE TABLE IF NOT EXISTS.
\* A failure is re-raised by create_venues_table and then by init_db_pool,
\* which sets DB_POOL = None without closing the pool it created.
InitSchema(t) ==
  /\ pc[t] = "init_schema"
  /\ \/ /\ schemaRuns' = schemaRuns + 1
        /\ Return(t, "none")
        /\ UNCHANGED DB_POOL
     \/ /\ DB_POOL' = PoolAfterInitFailure(DB_POOL)
        /\ Return(t, "Exception")
        /\ UNCHANGED schemaRuns
  /\ UNCHANGED <<poolSeq, openPools, closeCalls, closeErrors, store, ret,
                 retval, arg, closing, execOk, runVars, apiVars, obsVars>>

\* =========================================================== close_db_pool
\* close_db_pool without its test of DB_POOL
PoolPresent_NoTest(p) == TRUE

\* data_utils.py:187  "if DB_POOL:"
PoolPresent(p) == p # None

\* the reset placed in the try body: skipped when close() raises
PoolAfterClose_InTry(p, raised) == IF raised THEN p ELSE None

\* data_utils.py:193-194  "finally: DB_POOL = None"
PoolAfterClose(p, raised) == None

\* data_utils.py:186-189, up to the await of DB_POOL.close()
CloseEnter(t) ==
  /\ pc[t] = "close_enter"
  /\ IF PoolPresent(DB_POOL)
       THEN /\ closing' = [closing EXCEPT ![t] = DB_POOL]
            /\ closeCalls' = closeCalls + 1
            /\ Goto(t, "close_wait")
            /\ UNCHANGED exc
       ELSE /\ Return(t, "none")
            /\ UNCHANGED <<closing, closeCalls>>
  /\ UNCHANGED <<DB_POOL, poolSeq, openPools, schemaRuns, closeErrors, store,
                 ret, retval, arg, execOk, runVars, apiVars, obsVars>>

\* data_utils.py:189-194: close() resumes; it either closed the pool or
\* raised (and then the pool may or may not have been released); the error
\* is swallowed and the finally clause resets DB_POOL.
CloseFinish(t) ==
  /\ pc[t] = "close_wait"
  /\ \E raised \in BOOLEAN :
       /\ \/ openPools' = openPools \ {closing[t]}
          \/ raised /\ openPools' = openPools
       /\ DB_POOL' = PoolAfterClose(DB_POOL, raised)
       /\ closeErrors' = IF raised THEN closeErrors + 1 ELSE closeErrors
  /\ Return(t, "none")
  /\ UNCHANGED <<poolSeq, schemaRuns, closeCalls, store, ret, retval, arg,
                 closing, execOk, runVars, apiVars, obsVars>>

\* ======================================================= save_venues_to_db
\* data_utils.py:150  float(rating) with 0.0 for an absent / None rating
CoerceRating(r) == IF r = NULL THEN "0.0" ELSE r

\* data_utils.py:150  float() raises ValueError on a non-numeric string
RatingRaises(r) == r = BadRating

\* data_utils.py:142-153  the tuples handed to executemany
DataToInsert(venues_list) ==
  [i \in 1..Len(venues_list) |->
     [name |-> venues_list[i].name,
      location |-> venues_list[i].location,
      rating |-> CoerceRating(venues_list[i].rating)]]

\* data_utils.py:117  UNIQUE (name, location): two rows collide when both
\* columns are equal and not NULL (SQL compares NULLs as distinct).
Conflicts(row, new) ==
  /\ row.name # NULL /\ row.location # NULL
  /\ row.name = new.name
  /\ row.location = new.location

\* data_utils.py:160-162  INSERT ... ON CONFLICT (name, location) DO NOTHING
InsertRow(s, new) ==
  IF \E i \in 1..Len(s) : Conflicts(s[i], new) THEN s ELSE Append(s, new)

\* data_utils.py:158-165  executemany: the statement once per tuple, in order
RECURSIVE ExecuteMany(_, _)
ExecuteMany(s, data) ==
  IF data = <<>> THEN s
  ELSE ExecuteMany(InsertRow(s, Head(data)), Tail(data))

\* the count of rows actually inserted instead of the rows submitted
SaveReturn_NewRows(venues_list) ==
  Len(ExecuteMany(store, DataToInsert(venues_list))) - Len(store)

\* data_utils.py:173  "return len(venues_list)"
SaveReturn(venues_list) == Len(venues_list)

\* the submitted count returned although the insert failed
SaveErrorReturn_Count(venues_list) == Len(venues_list)

\* data_utils.py:175-179  "except Exception: ... return 0"
SaveErrorReturn(venues_list) == 0

\* data_utils.py:131  "if not DB_POOL:"
PoolMissing(p) == p = None

\* data_utils.py:131-139, up to the await of DB_POOL.acquire()
SaveEnter(t) ==
  /\ pc[t] = "save_enter"
  /\ execOk' = [execOk EXCEPT ![t] = FALSE]
  /\ IF PoolMissing(DB_POOL)
       THEN /\ Return(t, "ConnectionError")
            /\ UNCHANGED retval
       ELSE IF arg[t] = <<>>
         THEN /\ Return(t, "none")
              /\ retval' = [retval EXCEPT ![t] = 0]
         ELSE /\ Goto(t, "save_acquire")
              /\ UNCHANGED <<exc, retval>>
  /\ UNCHANGED <<poolVars, store, ret, arg, closing, runVars, apiVars, obsVars>>

\* data_utils.py:139-158: acquire resumes.  Its failure is raised outside
\* the try of line 155 and reaches the caller, and so does the ValueError of
\* a rating that float() rejects; otherwise executemany is awaited.
SaveAcquire(t) ==
  /\ pc[t] = "save_acquire"
  /\ \/ /\ Return(t, "Exception")
     \/ /\ \E i \in 1..Len(arg[t]) : RatingRaises(arg[t][i].rating)
        /\ Return(t, "ValueError")
     \/ /\ \A i \in 1..Len(arg[t]) : ~RatingRaises(arg[t][i].rating)
        /\ Goto(t, "save_exec")
        /\ UNCHANGED exc
  /\ UNCHANGED <<poolVars, store, ret, retval, arg, closing, execOk, runVars,
                 apiVars, obsVars>>

\* data_utils.py:155-179: executemany resumes.  It runs in one implicit
\* transaction, so an error leaves no row of the batch behind.
SaveExecute(t) ==
  /\ pc[t] = "save_exec"
  /\ \/ /\ store' = ExecuteMany(store, DataToInsert(arg[t]))
        /\ retval' = [retval EXCEPT ![t] = SaveReturn(arg[t])]
        /\ execOk' = [execOk EXCEPT ![t] = TRUE]
        /\ UNCHANGED swallowed
     \/ /\ store' = store
        /\ retval' = [retval EXCEPT ![t] = SaveErrorReturn(arg[t])]
        /\ swallowed' = swallowed + 1
        /\ UNCHANGED execOk
  /\ Return(t, "none")
  /\ UNCHANGED <<poolVars, ret, arg, closing, runVars, apiVars, delivery,
                 valVars>>

\* ================================================= direct calls of the API
\* the state a call starts from, kept to compare with the state it leaves
Snapshot(op, repeat) ==
  [op |-> op, pool |-> DB_POOL, seq |-> poolSeq, open |-> openPools,
   schema |-> schemaRuns, closes |-> closeCalls, store |-> store,
   repeat |-> repeat]

ApiCall(t, entry, limit) ==
  /\ pc[t] = "idle"
  /\ nCalls < limit
  /\ nCalls' = nCalls + 1
  /\ pc' = [pc EXCEPT ![t] = entry]
  /\ ret' = [ret EXCEPT ![t] = "api_ret"]
  /\ exc' = [exc EXCEPT ![t] = "none"]

\* a caller awaits init_db_pool()
CallInit(t) ==
  /\ ApiCall(t, "init_enter", MaxCalls)
  /\ call' = [call EXCEPT ![t] = Snapshot("init", FALSE)]
  /\ UNCHANGED <<poolVars, store, retval, arg, closing, execOk, runVars, obsVars>>

\* a caller awaits close_db_pool()
CallClose(t) ==
  /\ ApiCall(t, "close_enter", MaxCalls)
  /\ call' = [call EXCEPT ![t] = Snapshot("close", FALSE)]
  /\ UNCHANGED <<poolVars, store, retval, arg, closing, execOk, runVars, obsVars>>

\* a caller awaits save_venues_to_db(venues_list); repeat tells that the
\* previous call had the same list and its insert completed
CallSave(t) ==
  \E venues_list \in SeqsUpTo(Records, MaxListLen) :
    /\ ApiCall(t, "save_enter", MaxSaveCalls)
    /\ call' = [call EXCEPT ![t] =
                  Snapshot("save", execOk[t] /\ arg[t] = venues_list)]
    /\ arg' = [arg EXCEPT ![t] = venues_list]
    /\ UNCHANGED <<poolVars, store, retval, closing, execOk, runVars, obsVars>>

\* the caller takes the result and is free for its next call
ApiReturn(t) ==
  /\ pc[t] = "api_ret"
  /\ Goto(t, "idle")
  /\ UNCHANGED <<poolVars, store, ret, exc, retval, arg, closing, execOk,
                 runVars, apiVars, obsVars>>

NoCall == Snapshot("none", FALSE)

\* the venues table at start: empty, or holding the row an earlier run left
InitialStores ==
  {<<>>,
   ExecuteMany(<<>>, DataToInsert(<<[name |-> "A", location |-> "X",
                                     rating |-> NULL]>>))}

InitTasks(l) ==
  /\ pc = [t \in Tasks |-> IF t = MainTask THEN l ELSE "idle"]
  /\ ret = [t \in Tasks |-> "idle"]
  /\ exc = [t \in Tasks |-> "none"]
  /\ retval = [t \in Tasks |-> 0]
  /\ arg = [t \in Tasks |-> <<>>]
  /\ closing = [t \in Tasks |-> None]
  /\ execOk = [t \in Tasks |-> FALSE]

\* nothing delivered, no batch error swallowed, no candidate validated
InitObs ==
  /\ delivery = "none"
  /\ swallowed = 0
  /\ candidate = [key \in REQUIRED_KEYS |-> "value"]
  /\ required_keys = REQUIRED_KEYS
  /\ verdict = "unset"

InitRun ==
  /\ page_number = 1
  /\ max_pages \in 0..MaxPagesBound
  /\ all_venues_collected = <<>>
  /\ venues_processed = 0
  /\ crawl_status = "success"
  /\ webhookCalls = <<>>
  /\ fetched = <<>>
  /\ log = <<>>

\* data_utils.py:48  DB_POOL = None at import
InitPoolNone ==
  /\ DB_POOL = None
  /\ poolSeq = 0
  /\ openPools = {}
  /\ schemaRuns = 0
  /\ closeCalls = 0
  /\ closeErrors = 0

\* ---- the pool lifecycle: one caller, any sequence of init / close calls
InitPool ==
  /\ InitPoolNone
  /\ store = <<>>
  /\ InitTasks("idle")
  /\ InitObs
  /\ InitRun /\ max_pages = 2
  /\ nCalls = 0
  /\ call = [t \in Tasks |-> NoCall]

NextPool ==
  \/ CallInit(MainTask)
  \/ CallClose(MainTask)
  \/ InitEnter(MainTask)
  \/ InitCreatePool(MainTask)
  \/ InitSchema(MainTask)
  \/ CloseEnter(MainTask)
  \/ CloseFinish(MainTask)
  \/ ApiReturn(MainTask)

SpecPool == InitPool /\ [][NextPool]_vars

\* ---- the store: a ready pool, any sequence of save_venues_to_db calls
InitStore ==
  /\ DB_POOL = 1
  /\ poolSeq = 1
  /\ openPools = {1}
  /\ schemaRuns = 1
  /\ closeCalls = 0
  /\ closeErrors = 0
  /\ store \in InitialStores
  /\ InitTasks("idle")
  /\ InitObs
  /\ InitRun /\ max_pages = 2
  /\ nCalls = 0
  /\ call = [t \in Tasks |-> [NoCall EXCEPT !.store = store]]

NextStore ==
  \/ CallSave(MainTask)
  \/ SaveEnter(MainTask)
  \/ SaveAcquire(MainTask)
  \/ SaveExecute(MainTask)
  \/ ApiReturn(MainTask)

SpecStore == InitStore /\ [][NextStore]_vars

\* ========================================== main.py: the top-level run
\* main.py:146-148: the finally clause of main_runner begins and awaits
\* close_db_pool()
EnterFinally(t) ==
  /\ pc' = [pc EXCEPT ![t] = "close_enter"]
  /\ ret' = [ret EXCEPT ![t] = "mr_after_close"]
  /\ exc' = [exc EXCEPT ![t] = "none"]
  /\ log' = Append(log, <<"close", 0>>)

\* the except clauses leaving crawl_status alone
FailRun_StatusKept(t) ==
  /\ UNCHANGED <<crawl_status, venues_processed, arg>>
  /\ EnterFinally(t)

\* main.py:135-144: an exception of crawl_venues reaches one of the two
\* except clauses of main_runner; venues_processed keeps its value
FailRun(t) ==
  /\ crawl_status' = "failure"
  /\ UNCHANGED <<venues_processed, arg>>
  /\ EnterFinally(t)

\* main.py:125 and 134: crawl_venues returns n, main_runner stores it
FinishCrawl(t, n) ==
  /\ venues_processed' = n
  /\ UNCHANGED <<crawl_status, arg>>
  /\ EnterFinally(t)

\* save_venues_to_db awaited whatever the list holds
AfterLoop_AlwaysSave(t, acc) ==
  /\ arg' = [arg EXCEPT ![t] = acc]
  /\ pc' = [pc EXCEPT ![t] = "save_enter"]
  /\ ret' = [ret EXCEPT ![t] = "cv_after_save"]
  /\ log' = Append(log, <<"save", Len(acc)>>)
  /\ UNCHANGED <<exc, venues_processed, crawl_status>>

\* main.py:110-116: after the loop, save_venues_to_db is awaited only for a
\* non-empty list; otherwise venues_saved_count stays 0
AfterLoop(t, acc) ==
  IF acc # <<>>
    THEN /\ arg' = [arg EXCEPT ![t] = acc]
         /\ pc' = [pc EXCEPT ![t] = "save_enter"]
         /\ ret' = [ret EXCEPT ![t] = "cv_after_save"]
         /\ log' = Append(log, <<"save", Len(acc)>>)
         /\ UNCHANGED <<exc, venues_processed, crawl_status>>
    ELSE FinishCrawl(t, 0)

\* the loop test off by one
LoopContinues_OffByOne(page, maxp) == page <= maxp + 1

\* main.py:80  "while page_number <= max_pages"
LoopContinues(page, maxp) == page <= maxp

\* the loop also stopping on an empty page
BreaksOn_EmptyPage(no_results_found, venues_from_page) ==
  no_results_found \/ venues_from_page = <<>>

\* the end-of-results signal ignored
BreaksOn_Never(no_results_found, venues_from_page) == FALSE

\* main.py:89  "if no_results_found: break"
BreaksOn(no_results_found, venues_from_page) == no_results_found

\* main.py:80-87: the loop test; a further iteration awaits
\* fetch_and_process_page for the page
LoopHead(t, page, acc) ==
  IF LoopContinues(page, max_pages)
    THEN /\ pc' = [pc EXCEPT ![t] = "cv_fetch"]
         /\ log' = Append(log, <<"fetch", page>>)
         /\ UNCHANGED <<ret, exc, arg, venues_processed, crawl_status>>
    ELSE AfterLoop(t, acc)

\* main.py:128-134 and 52-57: __main__ runs main_runner, which sets its
\* defaults and awaits crawl_venues, which awaits init_db_pool
MainStart(t) ==
  /\ pc[t] = "main"
  /\ venues_processed' = 0
  /\ crawl_status' = "success"
  /\ pc' = [pc EXCEPT ![t] = "init_enter"]
  /\ ret' = [ret EXCEPT ![t] = "cv_after_init"]
  /\ log' = Append(log, <<"init", 0>>)
  /\ UNCHANGED <<poolVars, store, exc, retval, arg, closing, execOk,
                 page_number, max_pages, all_venues_collected, webhookCalls,
                 fetched, apiVars, obsVars>>

\* the failure of init_db_pool swallowed
InitFailed_Ignored(e, p) == FALSE

\* main.py:57-64: init_db_pool raised, or left no pool ("if not DB_POOL")
InitFailed(e, p) == e # "none" \/ p = None

\* main.py:57-80: init_db_pool returned or raised; the DB_POOL test of line
\* 61; page_number = 1, the empty list, and the first loop test
CrawlAfterInit(t) ==
  /\ pc[t] = "cv_after_init"
  /\ IF InitFailed(exc[t], DB_POOL)
       THEN /\ FailRun(t)
            /\ UNCHANGED <<page_number, all_venues_collected>>
       ELSE /\ page_number' = 1
            /\ all_venues_collected' = <<>>
            /\ LoopHead(t, 1, <<>>)
  /\ UNCHANGED <<poolVars, store, retval, closing, execOk, max_pages,
                 webhookCalls, fetched, apiVars, obsVars>>

\* the cursor advanced by two
NextPage_Skip(page) == page + 2

\* main.py:102  "page_number += 1"
NextPage(page) == page + 1

\* main.py:84-106: fetch_and_process_page resumes: it raised, or returned
\* (venues_from_page, no_results_found)
FetchReturn(t) ==
  /\ pc[t] = "cv_fetch"
  /\ \/ /\ fetched' = Append(fetched, [page |-> page_number, venues |-> <<>>,
                                       signal |-> FALSE, raised |-> TRUE])
        /\ FailRun(t)
        /\ UNCHANGED <<page_number, all_venues_collected>>
     \/ \E venues_from_page \in SeqsUpTo(PageRecords, MaxPageLen),
           no_results_found \in BOOLEAN :
          /\ fetched' = Append(fetched,
                               [page |-> page_number,
                                venues |-> venues_from_page,
                                signal |-> no_results_found,
                                raised |-> FALSE])
          /\ IF BreaksOn(no_results_found, venues_from_page)
               THEN /\ AfterLoop(t, all_venues_collected)
                    /\ UNCHANGED <<page_number, all_venues_collected>>
               ELSE /\ all_venues_collected' =
                         all_venues_collected \o venues_from_page
                    /\ page_number' = NextPage(page_number)
                    /\ IF NextPage(page_number) <= max_pages
                         THEN /\ pc' = [pc EXCEPT ![t] = "cv_sleep"]
                              /\ UNCHANGED <<ret, exc, arg, log,
                                             venues_processed, crawl_status>>
                         ELSE LoopHead(t, NextPage(page_number),
                                       all_venues_collected \o venues_from_page)
  /\ UNCHANGED <<poolVars, store, retval, closing, execOk, max_pages,
                 webhookCalls, apiVars, obsVars>>

\* main.py:106 and 80: asyncio.sleep(2) resumes, back to the loop test
SleepDone(t) ==
  /\ pc[t] = "cv_sleep"
  /\ LoopHead(t, page_number, all_venues_collected)
  /\ UNCHANGED <<poolVars, store, retval, closing, execOk, page_number,
                 max_pages, all_venues_collected, webhookCalls, fetched,
                 apiVars, obsVars>>

\* main.py:113-125: save_venues_to_db returned its count or raised
CrawlAfterSave(t) ==
  /\ pc[t] = "cv_after_save"
  /\ IF exc[t] # "none" THEN FailRun(t) ELSE FinishCrawl(t, retval[t])
  /\ UNCHANGED <<poolVars, store, retval, closing, execOk, page_number,
                 max_pages, all_venues_collected, webhookCalls, fetched,
                 apiVars, obsVars>>

\* the catch-all of line 48 missing
WebhookRaises_NoCatchAll(outcome) == outcome = "Exception"

\* the handler of HTTPStatusError (line 46) and the catch-all missing
WebhookRaises_NoStatusCatch(outcome) == outcome = "HTTPStatusError"

\* main.py:44-49: which delivery outcomes leave send_completion_webhook as an
\* exception: none, every one is caught
WebhookRaises(outcome) == FALSE

\* main.py:24-41: send_completion_webhook(status, ..., count) is called and
\* runs up to the await of the POST; without a COMPLETION_WEBHOOK_URL it
\* returns at once
WebhookEnter(t, status, count, back) ==
  /\ webhookCalls' = Append(webhookCalls, [status |-> status, count |-> count])
  /\ log' = Append(log, <<"notify", count>>)
  /\ \E url_set \in BOOLEAN :
       IF url_set
         THEN /\ pc' = [pc EXCEPT ![t] = "wh_post"]
              /\ ret' = [ret EXCEPT ![t] = back]
              /\ exc' = [exc EXCEPT ![t] = "none"]
              /\ UNCHANGED delivery
         ELSE /\ pc' = [pc EXCEPT ![t] = back]
              /\ exc' = [exc EXCEPT ![t] = "none"]
              /\ delivery' = "skipped"
              /\ UNCHANGED ret

\* main.py:149-150: close_db_pool returned; main_runner awaits
\* send_completion_webhook with the status and count of the crawl
MainRunnerNotify(t) ==
  /\ pc[t] = "mr_after_close"
  /\ WebhookEnter(t, crawl_status, venues_processed, "mr_ret")
  /\ UNCHANGED <<poolVars, store, retval, arg, closing, execOk, page_number,
                 max_pages, all_venues_collected, venues_processed,
                 crawl_status, fetched, apiVars, swallowed, valVars>>

\* main.py:41-49: the POST resumes: delivered, network error or timeout
\* (RequestError), non-2xx (HTTPStatusError) or any other exception
WebhookPost(t) ==
  /\ pc[t] = "wh_post"
  /\ \E outcome \in {"ok", "RequestError", "HTTPStatusError", "Exception"} :
       /\ delivery' = outcome
       /\ Return(t, IF WebhookRaises(outcome) THEN "Exception" ELSE "none")
  /\ UNCHANGED <<poolVars, store, ret, retval, arg, closing, execOk, runVars,
                 apiVars, swallowed, valVars>>

\* main.py:157-165: asyncio.run(main_runner()) is over; an exception that
\* left main_runner sends the fallback notification
MainBlock(t) ==
  /\ pc[t] = "mr_ret"
  /\ IF exc[t] # "none"
       THEN WebhookEnter(t, "critical_failure", 0, "done")
       ELSE /\ Goto(t, "done")
            /\ UNCHANGED <<ret, exc, webhookCalls, log, delivery>>
  /\ UNCHANGED <<poolVars, store, retval, arg, closing, execOk, page_number,
                 max_pages, all_venues_collected, venues_processed,
                 crawl_status, fetched, apiVars, swallowed, valVars>>

\* ---- one process: python main.py.  max_pages is the page budget of
\* main.py:75 (2 in the source), taken here from 0..MaxPagesBound.
Init ==
  /\ InitPoolNone
  /\ store \in InitialStores
  /\ InitTasks("main")
  /\ InitObs
  /\ InitRun
  /\ nCalls = 0
  /\ call = [t \in Tasks |-> [NoCall EXCEPT !.store = store]]

Next ==
  \/ MainStart(MainTask)
  \/ InitEnter(MainTask)
  \/ InitCreatePool(MainTask)
  \/ InitSchema(MainTask)
  \/ CrawlAfterInit(MainTask)
  \/ FetchReturn(MainTask)
  \/ SleepDone(MainTask)
  \/ SaveEnter(MainTask)
  \/ SaveAcquire(MainTask)
  \/ SaveExecute(MainTask)
  \/ CrawlAfterSave(MainTask)
  \/ CloseEnter(MainTask)
  \/ CloseFinish(MainTask)
  \/ MainRunnerNotify(MainTask)
  \/ WebhookPost(MainTask)
  \/ MainBlock(MainTask)

Spec == Init /\ [][Next]_vars

\* ---- the pool lifecycle with two callers whose init_db_pool and
\* close_db_pool calls interleave at their await points
NextPoolConc ==
  \E t \in Tasks :
    \/ CallInit(t)
    \/ CallClose(t)
    \/ InitEnter(t)
    \/ InitCreatePool(t)
    \/ InitSchema(t)
    \/ CloseEnter(t)
    \/ CloseFinish(t)
    \/ ApiReturn(t)

SpecPoolConc == InitPool /\ [][NextPoolConc]_vars

\* ============================================== the record validator
\* data_utils.py:18-19  all(key in venue for key in required_keys)
is_complete_venue(venue, required) ==
  \A key \in required : venue[key] # ABSENT

\* a caller evaluates is_complete_venue(candidate, required_keys)
ValidateCandidate ==
  /\ verdict = "unset"
  /\ verdict' = IF is_complete_venue(candidate, required_keys)
                  THEN "true" ELSE "false"
  /\ UNCHANGED <<poolVars, store, taskVars, runVars, apiVars, delivery,
                 swallowed, candidate, required_keys>>

\* any candidate over the keys of config.py, checked against all of the
\* required keys, two of them, or none
InitValidator ==
  /\ InitPoolNone
  /\ store = <<>>
  /\ InitTasks("idle")
  /\ InitRun /\ max_pages = 2
  /\ nCalls = 0
  /\ call = [t \in Tasks |-> NoCall]
  /\ delivery = "none"
  /\ swallowed = 0
  /\ candidate \in [REQUIRED_KEYS -> FieldStates]
  /\ required_keys \in {REQUIRED_KEYS, {"name", "location"}, {}}
  /\ verdict = "unset"

NextValidator == ValidateCandidate

SpecValidator == InitValidator /\ [][NextValidator]_vars

\* ================================================================= claims
Main == MainTask

LogHas(ev) == \E j \in 1..Len(log) : log[j][1] = ev

FetchIssued(k) == \E j \in 1..Len(log) : log[j] = <<"fetch", k>>

Returned(op) == pc[Main] = "api_ret" /\ call[Main].op = op

\* C1: every run of main_runner calls send_completion_webhook exactly once,
\* on every exit path: never a second call (the fallback of the __main__
\* block is not sent), never a finished run without one, and a run that has
\* not finished can always take its next step.
C1_ExactlyOneNotification ==
  /\ Len(webhookCalls) <= 1
  /\ pc[Main] = "done" => Len(webhookCalls) = 1
  /\ \A i \in 1..Len(webhookCalls) : webhookCalls[i].status # "critical_failure"
  /\ pc[Main] # "done" => ENABLED Next

\* a finished run whose persistence step raised: one notification
C1_Witness ==
  /\ pc[Main] = "done"
  /\ LogHas("save")
  /\ crawl_status = "failure"
  /\ Len(webhookCalls) = 1

\* C2: on every exit path close_db_pool runs before the notification is
\* sent, and from the notification on DB_POOL is None, also when closing
\* the pool raised.
C2_CloseBeforeNotify ==
  /\ \A i \in 1..Len(log) :
       log[i][1] = "notify" => \E j \in 1..(i - 1) : log[j][1] = "close"
  /\ webhookCalls # <<>> => DB_POOL = None /\ pc[Main] \notin {"close_enter", "close_wait"}
  /\ pc[Main] \in {"mr_after_close", "wh_post", "mr_ret", "done"} => DB_POOL = None

\* a finished run in which the pool was ready and close() raised
C2_Witness ==
  /\ pc[Main] = "done"
  /\ closeErrors = 1
  /\ DB_POOL = None
  /\ Len(webhookCalls) = 1

\* C3: save_venues_to_db is idempotent on the store: a second call with the
\* same list leaves the rows as the first call left them; the store never
\* holds two rows with the same (name, location); a call leaves the rows
\* that were there untouched.
C3_UpsertIdempotent ==
  /\ (Returned("save") /\ call[Main].repeat /\ execOk[Main])
       => store = call[Main].store
  /\ \A i, j \in 1..Len(store) :
       i # j => ~(store[i].name = store[j].name
                  /\ store[i].location = store[j].location)
  /\ Returned("save") =>
       /\ Len(store) >= Len(call[Main].store)
       /\ \A i \in 1..Len(call[Main].store) : store[i] = call[Main].store[i]

\* C4: with a ready pool and a non-empty list, an error during
\* save_venues_to_db other than the uniqueness conflict (a value float()
\* rejects is not counted as such an error) makes the call return 0 without
\* raising and adds no row.
C4_BatchErrorReturnsZero ==
  (/\ Returned("save")
   /\ call[Main].pool # None
   /\ arg[Main] # <<>>
   /\ ~execOk[Main]
   /\ exc[Main] # "ValueError")
    => /\ exc[Main] = "none"
       /\ retval[Main] = 0
       /\ store = call[Main].store

\* C5: whenever the batched insert completes without error the call returns
\* the number of records submitted, whatever the number of rows inserted.
C5_ReturnsSubmittedCount ==
  (Returned("save") /\ execOk[Main])
    => /\ exc[Main] = "none"
       /\ retval[Main] = Len(arg[Main])

\* a call whose rows all conflicted: nothing inserted, the full count returned
C5_Witness ==
  /\ Returned("save")
  /\ execOk[Main]
  /\ Len(arg[Main]) = 2
  /\ store = call[Main].store
  /\ retval[Main] = 2

EmptyNoSignal(f) == f.venues = <<>> /\ ~f.signal /\ ~f.raised

\* C6 as stated: after a page with no accepted record and no end signal no
\* later page is fetched.
C6_EmptyPageStops ==
  \A i \in 1..Len(fetched) :
    EmptyNoSignal(fetched[i]) =>
      /\ i = Len(fetched)
      /\ pc[Main] \notin {"cv_fetch", "cv_sleep"}
      /\ ~FetchIssued(fetched[i].page + 1)

\* C6 amended: a page with no accepted record and no end signal does not end
\* the loop: the page after it is fetched exactly when its index is below
\* max_pages (after the pause), and the loop ends there only when the page
\* budget is used up.
C6_EmptyPageContinues ==
  \A i \in 1..Len(fetched) :
    EmptyNoSignal(fetched[i]) =>
      IF fetched[i].page < max_pages
        THEN \/ FetchIssued(fetched[i].page + 1)
             \/ /\ pc[Main] = "cv_sleep"
                /\ page_number = fetched[i].page + 1
                /\ i = Len(fetched)
        ELSE /\ i = Len(fetched)
             /\ ~FetchIssued(fetched[i].page + 1)
             /\ pc[Main] \notin {"cv_fetch", "cv_sleep"}

\* page 1 came back empty without the signal and page 2 was fetched
C6_Witness ==
  /\ Len(fetched) >= 2
  /\ EmptyNoSignal(fetched[1])
  /\ fetched[2].page = 2
  /\ ~fetched[2].raised

RECURSIVE ConcatVenues(_, _)
ConcatVenues(f, n) ==
  IF n = 0 THEN <<>> ELSE ConcatVenues(f, n - 1) \o f[n].venues

\* C7: when the adapter signals end-of-results on page k the loop stops:
\* that page's records are not appended, no page after k is fetched, and the
\* accumulator is the concatenation of the records of pages 1..k-1.
C7_EndSignalStops ==
  \A k \in 1..Len(fetched) :
    fetched[k].signal =>
      /\ k = Len(fetched)
      /\ fetched[k].page = k
      /\ pc[Main] \notin {"cv_fetch", "cv_sleep"}
      /\ ~FetchIssued(k + 1)
      /\ all_venues_collected = ConcatVenues(fetched, k - 1)

\* the signal came on page 3 together with records, after two pages with
\* records, and the run has finished
C7_Witness ==
  /\ pc[Main] = "done"
  /\ Len(fetched) = 3
  /\ fetched[3].signal
  /\ fetched[3].venues # <<>>
  /\ fetched[1].venues # <<>>
  /\ fetched[2].venues # <<>>
  /\ Len(all_venues_collected) = Len(fetched[1].venues) + Len(fetched[2].venues)

WellBehaved ==
  \A i \in 1..Len(fetched) :
    ~fetched[i].raised /\ ~fetched[i].signal /\ fetched[i].venues # <<>>

LoopTerminated == schemaRuns = 1 /\ (LogHas("save") \/ LogHas("close"))

\* C8: no page index above max_pages is ever fetched; with an adapter that
\* always returns records and never signals the end, the loop has made
\* exactly max_pages fetches when it ends; with max_pages = 0 there is no
\* fetch, no record and no save_venues_to_db call.
C8_PageBudget ==
  /\ \A j \in 1..Len(log) : log[j][1] = "fetch" => log[j][2] <= max_pages
  /\ Len(fetched) <= max_pages
  /\ (LoopTerminated /\ WellBehaved) => Len(fetched) = max_pages
  /\ max_pages = 0 =>
       /\ fetched = <<>>
       /\ all_venues_collected = <<>>
       /\ ~LogHas("fetch")
       /\ ~LogHas("save")
       /\ venues_processed = 0

\* the whole budget of pages was fetched from a well-behaved adapter
C8_Witness ==
  /\ pc[Main] = "done"
  /\ max_pages = MaxPagesBound
  /\ WellBehaved
  /\ Len(fetched) = max_pages

\* C9: init_db_pool called while the pool is ready returns without raising,
\* creates no pool, runs no schema creation and leaves DB_POOL as it was.
C9_InitIdempotent ==
  (Returned("init") /\ call[Main].pool # None)
    => /\ exc[Main] = "none"
       /\ DB_POOL = call[Main].pool
       /\ poolSeq = call[Main].seq
       /\ openPools = call[Main].open
       /\ schemaRuns = call[Main].schema

\* a second init_db_pool right after a successful first one
C9_Witness ==
  /\ Returned("init")
  /\ call[Main].pool = 1
  /\ nCalls = 2
  /\ schemaRuns = 1

\* C10: close_db_pool on an uninitialized pool does not raise, closes
\* nothing and changes nothing; on a ready pool it calls close() on that
\* pool once, does not raise and leaves DB_POOL None; the init_db_pool after
\* it installs a pool that did not exist before.
C10_CloseIdempotent ==
  /\ (Returned("close") /\ call[Main].pool = None)
       => /\ exc[Main] = "none"
          /\ DB_POOL = None
          /\ closeCalls = call[Main].closes
          /\ openPools = call[Main].open
          /\ poolSeq = call[Main].seq
  /\ (Returned("close") /\ call[Main].pool # None)
       => /\ exc[Main] = "none"
          /\ DB_POOL = None
          /\ closeCalls = call[Main].closes + 1
          /\ closing[Main] = call[Main].pool
          /\ closeErrors = 0 => call[Main].pool \notin openPools
  /\ (Returned("init") /\ call[Main].pool = None /\ exc[Main] = "none")
       => /\ DB_POOL # None
          /\ DB_POOL \notin call[Main].open
          /\ DB_POOL > call[Main].seq

\* a second close_db_pool after one that closed a ready pool
C10_Witness ==
  /\ Returned("close")
  /\ call[Main].pool = None
  /\ closeCalls = 1
  /\ nCalls = 3

\* C11: a failed init_db_pool (missing parameters, create_pool failure, or
\* schema failure after the pool was created) raises to the caller and
\* leaves DB_POOL None; a call that returns normally from an uninitialized
\* state has installed a new pool and run the schema creation.
C11_FailedInitLeavesNone ==
  (Returned("init") /\ call[Main].pool = None)
    => \/ /\ exc[Main] # "none"
          /\ DB_POOL = None
          /\ schemaRuns = call[Main].schema
       \/ /\ exc[Main] = "none"
          /\ DB_POOL = call[Main].seq + 1
          /\ DB_POOL \in openPools
          /\ schemaRuns = call[Main].schema + 1

\* the schema step failed after the pool had been created
C11_Witness ==
  /\ Returned("init")
  /\ exc[Main] = "Exception"
  /\ poolSeq = call[Main].seq + 1
  /\ DB_POOL = None

CrawlRaised ==
  \/ schemaRuns = 0
  \/ \E i \in 1..Len(fetched) : fetched[i].raised
  \/ LogHas("save") /\ ~execOk[Main] /\ swallowed = 0

\* C12: whatever the delivery outcome (no URL, network error or timeout,
\* non-2xx, other error, success) send_completion_webhook returns normally
\* and main_runner ends normally; the status and count handed to it are
\* those of the crawl: failure exactly when crawl_venues raised, and the
\* values main_runner still holds after the delivery.
C12_DeliveryIndependent ==
  /\ delivery # "none" =>
       /\ exc[Main] = "none"
       /\ pc[Main] \in {"mr_ret", "done"}
       /\ Len(webhookCalls) = 1
  /\ \A i \in 1..Len(webhookCalls) :
       /\ webhookCalls[i] = [status |-> crawl_status,
                             count |-> venues_processed]
       /\ webhookCalls[i].status = "failure" <=> CrawlRaised
       /\ webhookCalls[i].status \in {"success", "failure"}

\* a successful crawl whose notification got a non-2xx answer
C12_Witness ==
  /\ pc[Main] = "done"
  /\ delivery = "HTTPStatusError"
  /\ Len(webhookCalls) = 1
  /\ webhookCalls[1].status = "success"
  /\ webhookCalls[1].count > 0

Complete(c, required) == \A key \in required : c[key] \notin {ABSENT, NULL}

\* C13: is_complete_venue returns true exactly when every required key is
\* present with a non-null value.
C13_CompleteIffPresentNonNull ==
  verdict # "unset" =>
    (verdict = "true" <=> Complete(candidate, required_keys))

SaveEntries == SelectSeq(log, LAMBDA e : e[1] = "save")

FetchEntries == SelectSeq(log, LAMBDA e : e[1] = "fetch")

CleanRun ==
  /\ schemaRuns = 1
  /\ \A i \in 1..Len(fetched) : ~fetched[i].raised
  /\ LogHas("save") => execOk[Main]

\* C14: when pool initialization, every fetch and the batch write complete
\* without error, the notification reports success and the length of the
\* final accumulator, which is the length of the list of the one
\* save_venues_to_db call; with an empty accumulator the count is 0 and
\* save_venues_to_db is not called.
C14_SuccessCount ==
  (webhookCalls # <<>> /\ CleanRun) =>
    /\ webhookCalls[1] = [status |-> "success",
                          count |-> Len(all_venues_collected)]
    /\ SaveEntries = IF all_venues_collected = <<>> THEN <<>>
                     ELSE << <<"save", Len(all_venues_collected)>> >>

\* a clean run that collected two records, one of them already stored
C14_Witness ==
  /\ pc[Main] = "done"
  /\ CleanRun
  /\ Len(all_venues_collected) = 2
  /\ Len(store) = 1
  /\ webhookCalls[1] = [status |-> "success", count |-> 2]

\* C15: an adapter failure on page k ends the run: page k is not fetched
\* again, no later page is fetched, save_venues_to_db is never called and
\* the table is left as it was, and the notification reports failure with
\* count 0.
C15_AdapterFailureTerminal ==
  \A k \in 1..Len(fetched) :
    fetched[k].raised =>
      /\ k = Len(fetched)
      /\ fetched[k].page = k
      /\ Len(FetchEntries) = k
      /\ pc[Main] \notin {"cv_fetch", "cv_sleep"}
      /\ ~LogHas("save")
      /\ store = call[Main].store
      /\ crawl_status = "failure"
      /\ venues_processed = 0
      /\ \A i \in 1..Len(webhookCalls) :
           webhookCalls[i] = [status |-> "failure", count |-> 0]

\* page 1 gave a record, page 2 raised, and the run has finished
C15_Witness ==
  /\ pc[Main] = "done"
  /\ Len(fetched) = 2
  /\ fetched[2].raised
  /\ all_venues_collected # <<>>
  /\ webhookCalls = <<[status |-> "failure", count |-> 0]>>

\* C16: a page is fetched only with a ready pool, after init_db_pool has
\* succeeded; when init_db_pool fails the run makes no adapter call and no
\* save_venues_to_db call and reports failure.
C16_NoFetchWithoutPool ==
  /\ LogHas("fetch") => schemaRuns = 1 /\ poolSeq = 1
  /\ pc[Main] \in {"cv_fetch", "cv_sleep"} =>
       DB_POOL # None /\ DB_POOL \in openPools
  /\ (schemaRuns = 0 /\ LogHas("close")) =>
       /\ ~LogHas("fetch")
       /\ ~LogHas("save")
       /\ fetched = <<>>
       /\ crawl_status = "failure"
       /\ \A i \in 1..Len(webhookCalls) :
            webhookCalls[i] = [status |-> "failure", count |-> 0]

\* init_db_pool failed before any pool existed; the run reported failure
C16_Witness ==
  /\ pc[Main] = "done"
  /\ schemaRuns = 0
  /\ poolSeq = 0
  /\ fetched = <<>>
  /\ webhookCalls = <<[status |-> "failure", count |-> 0]>>

\* C17: save_venues_to_db is called at most once in a run, with a
\* non-empty list (the accumulator), after the last fetch has returned and
\* before close_db_pool, with the pool ready all along, so its
\* "pool not initialized" ConnectionError does not occur.
C17_OneSaveAfterLoop ==
  /\ Len(SaveEntries) <= 1
  /\ \A j \in 1..Len(log) :
       log[j][1] = "save" =>
         /\ log[j][2] > 0
         /\ log[j][2] = Len(all_venues_collected)
         /\ Len(FetchEntries) = Len(fetched)
         /\ \A i \in (j + 1)..Len(log) : log[i][1] # "fetch"
         /\ \A i \in 1..(j - 1) : log[i][1] # "close"
  /\ pc[Main] \in {"save_enter", "save_acquire", "save_exec"} =>
       /\ DB_POOL # None
       /\ DB_POOL \in openPools
       /\ arg[Main] = all_venues_collected
       /\ arg[Main] # <<>>
  /\ ~(pc[Main] = "cv_after_save" /\ exc[Main] = "ConnectionError")

\* three pages were fetched, then the one save completed its insert
C17_Witness ==
  /\ pc[Main] = "done"
  /\ Len(fetched) = 3
  /\ Len(SaveEntries) = 1
  /\ execOk[Main]

RECURSIVE ConcatAccepted(_, _)
ConcatAccepted(f, n) ==
  IF n = 0 THEN <<>>
  ELSE IF f[n].signal \/ f[n].raised THEN ConcatAccepted(f, n - 1)
  ELSE ConcatAccepted(f, n - 1) \o f[n].venues

\* C18: the pages handed to the adapter are 1, 2, ..., k in this order; at
\* most one adapter call is pending, and only while the loop waits for it;
\* the accumulator is the records of the returned pages appended in page
\* order; after the loop has ended (save or close begun) nothing is fetched.
C18_SequentialPages ==
  /\ \A i \in 1..Len(FetchEntries) : FetchEntries[i][2] = i
  /\ \A i \in 1..Len(fetched) : fetched[i].page = i
  /\ Len(FetchEntries) - Len(fetched) = IF pc[Main] = "cv_fetch" THEN 1 ELSE 0
  /\ all_venues_collected = ConcatAccepted(fetched, Len(fetched))
  /\ \A j \in 1..Len(log) :
       log[j][1] \in {"save", "close"} =>
         \A i \in (j + 1)..Len(log) : log[i][1] # "fetch"

\* the whole budget of three pages was fetched, every page with a record
C18_Witness ==
  /\ pc[Main] = "done"
  /\ Len(fetched) = 3
  /\ WellBehaved
  /\ Len(all_venues_collected) = 3

\* C19: at every point of any interleaving of init_db_pool and
\* close_db_pool calls at most one pool exists that was created and not
\* closed.
C19_AtMostOnePool == Cardinality(openPools) <= 1

\* C20: when the crawl collected records and the batch insert failed with
\* the swallowed error, the notification is status success with count 0 and
\* the table is unchanged; this is the notification of a clean run that
\* collected nothing.
C20_SwallowedErrorLooksEmpty ==
  /\ (swallowed > 0 /\ webhookCalls # <<>>) =>
       /\ Len(all_venues_collected) >= 1
       /\ store = call[Main].store
       /\ webhookCalls = <<[status |-> "success", count |-> 0]>>
  /\ (CleanRun /\ all_venues_collected = <<>> /\ webhookCalls # <<>>) =>
       webhookCalls = <<[status |-> "success", count |-> 0]>>

\* a finished run with records collected and the insert error swallowed
C20_Witness ==
  /\ pc[Main] = "done"
  /\ swallowed = 1
  /\ Len(all_venues_collected) >= 1
  /\ webhookCalls = <<[status |-> "success", count |-> 0]>>

====
